---------------------------- MODULE Spec2Model ----------------------------
(***************************************************************************)
(* A model of PythonAPI/CLMS_downloader.py: the HR-S&I catalogue client.   *)
(*                                                                         *)
(* Strings are sequences of tokens.  A token is one character ("a", ";",   *)
(* " ", "\n") or, for text whose inside no operation looks at, one fixed   *)
(* chunk (URL_ROOT, a key name).  Python's None is the empty tuple and a   *)
(* present value v is the one-element tuple <<v>>, so that "" and None     *)
(* stay different values.                                                  *)
(***************************************************************************)
EXTENDS Integers, Sequences, FiniteSets, TLC

VARIABLES
    pc,                  \* position of the process in main / execute_request / download
    args,                \* the parsed command line (argparse namespace), or the library call;
                         \* and what a specification varies besides (max_retry, totalResults,
                         \* invocation)
    disk,                \* the files the program reads and writes: name -> content or None
    hrsi_http_request,   \* HRSIRequest.hrsi_http_request
    hrsi_credential,     \* HRSIRequest.hrsi_credential
    result_file,         \* HRSIRequest.result_file
    url_params,          \* build_request's url_params when the request was built
    requested_pages,     \* execute_request's page counter
    hrsi_products,       \* execute_request's accumulated list of (url, title)
    fetched,             \* history: the response of every page requested so far
    net,                 \* history: every network call issued, in order
    log,                 \* the log stream (errors, warnings, download messages)
    exc,                 \* the uncaught exception that ended the run, or None
    credentials,         \* download's credentials
    product_list,        \* download's product_list
    idx,                 \* download's position in product_list (1-based)
    ntries,              \* download's ntries for the current product
    attempts,            \* history: per product_list position, how each attempt ended
    slept,               \* history: every time.sleep argument, in order
    stored               \* the files written by curl -o: sequence of file paths
                         \* (over all invocations, where a specification has several)

vars == <<pc, args, disk, hrsi_http_request, hrsi_credential, result_file,
          url_params, requested_pages, hrsi_products, fetched, net, log, exc,
          credentials, product_list, idx, ntries, attempts, slept, stored>>

-----------------------------------------------------------------------------
(* Bounds of the model.                                                    *)

\* Features the catalogue holds for a query, over all its pages.
MaxFeatures == 2
\* Largest page ceiling a library caller passes to execute_request.
MaxCeiling == 2
\* Lines of a result list supplied with -result_file.
MaxList == 2
\* Length of a url or title in the result-list round trip.
MaxLen == 2
\* Largest retry bound the download loop is run under.
MaxRetry == 3
\* Invocations of the program on the same output directory and result list.
MaxRuns == 2

-----------------------------------------------------------------------------
(* Optional values and generic helpers.                                    *)

None == <<>>
Some(v) == <<v>>
Val(o) == o[1]

Range(s) == {s[i] : i \in DOMAIN s}

\* All sequences over S of length at most n.
SeqsUpTo(S, n) == UNION {[1..k -> S] : k \in 0..n}

RECURSIVE Concat(_)
\* The concatenation of a sequence of strings.
Concat(ss) == IF ss = <<>> THEN <<>> ELSE Head(ss) \o Concat(Tail(ss))

\* All orderings of the finite set S, as sequences without repetition.
Orderings(S) ==
    {q \in [1..Cardinality(S) -> S] : \A i, j \in DOMAIN q : i # j => q[i] # q[j]}

\* A set that takes two pairs with the same url for one.
ToSet_by_url(s) ==
    {s[i] : i \in {j \in DOMAIN s : \A h \in 1..(j - 1) : s[h][1] # s[j][1]}}

\* The sequence s without repetitions, as a set (Python's set(list)).
ToSet(s) == Range(s)

-----------------------------------------------------------------------------
(* Python string operations, on token sequences.                           *)

\* str.isspace for one character.
IsSpace(c) == c \in {" ", "\n", "\t", "\r"}

RECURSIVE LStrip(_)
LStrip(s) == IF s # <<>> /\ IsSpace(Head(s)) THEN LStrip(Tail(s)) ELSE s

RECURSIVE RStrip(_)
RStrip(s) ==
    IF s # <<>> /\ IsSpace(s[Len(s)]) THEN RStrip(SubSeq(s, 1, Len(s) - 1)) ELSE s

\* str.strip(): leading and trailing whitespace removed.
Strip(s) == RStrip(LStrip(s))

RECURSIVE SplitAcc(_, _, _)
SplitAcc(s, seps, cur) ==
    IF s = <<>> THEN <<cur>>
    ELSE IF Head(s) \in seps THEN <<cur>> \o SplitAcc(Tail(s), seps, <<>>)
    ELSE SplitAcc(Tail(s), seps, Append(cur, Head(s)))

\* str.split(sep) for a one-character separator: always at least one field.
Split(s, sep) == SplitAcc(s, {sep}, <<>>)

RECURSIVE Join(_, _)
\* sep.join(parts)
Join(sep, parts) ==
    IF parts = <<>> THEN <<>>
    ELSE IF Len(parts) = 1 THEN parts[1]
    ELSE parts[1] \o sep \o Join(sep, Tail(parts))

RECURSIVE ReadLinesAcc(_, _)
ReadLinesAcc(s, cur) ==
    IF s = <<>> THEN (IF cur = <<>> THEN <<>> ELSE <<cur>>)
    ELSE IF Head(s) = "\n" THEN <<Append(cur, "\n")>> \o ReadLinesAcc(Tail(s), <<>>)
    ELSE ReadLinesAcc(Tail(s), Append(cur, Head(s)))

\* file.readlines(): the content cut after every "\n", the "\n" kept.
ReadLines(content) == ReadLinesAcc(content, <<>>)

\* s.endswith(suffix)
EndsWith(s, suffix) ==
    /\ Len(s) >= Len(suffix)
    /\ SubSeq(s, Len(s) - Len(suffix) + 1, Len(s)) = suffix

\* str(n) for a natural number: its decimal digits.
Digits == <<"0", "1", "2", "3", "4", "5", "6", "7", "8", "9">>

RECURSIVE DecimalStr(_)
DecimalStr(n) ==
    IF n < 10 THEN <<Digits[n + 1]>>
    ELSE Append(DecimalStr(n \div 10), Digits[(n % 10) + 1])

IsDigit(c) == \E i \in DOMAIN Digits : Digits[i] = c

DigitVal(c) == (CHOOSE i \in DOMAIN Digits : Digits[i] = c) - 1

RECURSIVE DecimalVal(_)
\* int(s) for a string of digits.
DecimalVal(s) ==
    IF s = <<>> THEN 0
    ELSE 10 * DecimalVal(SubSeq(s, 1, Len(s) - 1)) + DigitVal(s[Len(s)])

AllDigits(s) == \A i \in DOMAIN s : IsDigit(s[i])

Lower == <<"a", "b", "c", "d", "e", "f", "g", "h", "i", "j", "k", "l", "m",
           "n", "o", "p", "q", "r", "s", "t", "u", "v", "w", "x", "y", "z">>
Upper == <<"A", "B", "C", "D", "E", "F", "G", "H", "I", "J", "K", "L", "M",
           "N", "O", "P", "Q", "R", "S", "T", "U", "V", "W", "X", "Y", "Z">>

UpperChar(c) ==
    IF \E i \in DOMAIN Lower : Lower[i] = c
    THEN Upper[CHOOSE i \in DOMAIN Lower : Lower[i] = c]
    ELSE c

\* str.upper()
StrUpper(s) == [i \in DOMAIN s |-> UpperChar(s[i])]

\* str.replace(' ', '+')
ReplaceSpaces(s) == [i \in DOMAIN s |-> IF s[i] = " " THEN "+" ELSE s[i]]

-----------------------------------------------------------------------------
(* validate_Rfc3339: datetime.strptime(date_text, '%Y-%m-%dT%H:%M:%SZ').   *)
(* strptime matches its pattern against the whole text, letters without    *)
(* regard to case, each numeric field with one or two digits (the year     *)
(* with four), and then builds a datetime, which checks the ranges.        *)

\* A numeric field of one or two digits with a value in lo..hi2 when written
\* with two digits, and in lo1..9 when written with one.
FieldOk(f, lo1, lo, hi2) ==
    /\ Len(f) \in {1, 2}
    /\ AllDigits(f)
    /\ IF Len(f) = 1 THEN DecimalVal(f) >= lo1
       ELSE DecimalVal(f) >= lo /\ DecimalVal(f) <= hi2

\* %d also takes a space followed by one digit 1..9.
DayFieldOk(f) ==
    \/ FieldOk(f, 1, 1, 31)
    \/ Len(f) = 2 /\ f[1] = " " /\ IsDigit(f[2]) /\ DigitVal(f[2]) >= 1

DayVal(f) == IF f[1] = " " THEN DigitVal(f[2]) ELSE DecimalVal(f)

IsLeap(y) == (y % 4 = 0 /\ y % 100 # 0) \/ y % 400 = 0

DaysInMonth(y, m) ==
    IF m = 2 THEN (IF IsLeap(y) THEN 29 ELSE 28)
    ELSE IF m \in {4, 6, 9, 11} THEN 30 ELSE 31

\* TRUE when strptime accepts the text (validate_Rfc3339 returns it), FALSE when
\* validate_Rfc3339 raises ValueError.
Rfc3339Ok(date_text) ==
    LET dash == Split(date_text, "-") IN
    /\ Len(dash) = 3
    /\ LET tee == SplitAcc(dash[3], {"T", "t"}, <<>>) IN
       /\ Len(tee) = 2
       /\ LET col == Split(tee[2], ":") IN
          /\ Len(col) = 3
          /\ col[3] # <<>>
          /\ col[3][Len(col[3])] \in {"Z", "z"}
          /\ LET Y == dash[1]
                 m == dash[2]
                 d == tee[1]
                 H == col[1]
                 M == col[2]
                 S == SubSeq(col[3], 1, Len(col[3]) - 1)
             IN  /\ Len(Y) = 4 /\ AllDigits(Y)
                 /\ FieldOk(m, 1, 1, 12)
                 /\ DayFieldOk(d)
                 /\ FieldOk(H, 0, 0, 23)
                 /\ FieldOk(M, 0, 0, 59)
                 /\ FieldOk(S, 0, 0, 61)
                 /\ DecimalVal(Y) >= 1
                 /\ DayVal(d) <= DaysInMonth(DecimalVal(Y), DecimalVal(m))
                 /\ DecimalVal(S) <= 59

-----------------------------------------------------------------------------
(* HRSIRequest class constants.                                            *)

URL_ROOT == <<"https://cryo.land.copernicus.eu/resto/api/collections/HRSI/search.json">>

URL_PARAM_GEOMETRY == "geometry"
URL_PARAM_PUBLISHED_AFTER == "publishedAfter"
URL_PARAM_PUBLISHED_BEFORE == "publishedBefore"
URL_PARAM_OBSERVATIONDATE_AFTER == "startDate"
URL_PARAM_OBSERVATIONDATE_BEFORE == "completionDate"
URL_PARAM_PRODUCT_IDENTIFIER == "productIdentifier"
URL_PARAM_PRODUCT_TYPE == "productType"
URL_PARAM_MISSION == "mission"
URL_PARAM_CLOUD_COVER == "cloudCover"
URL_PARAM_TEXTUAL_SEARCH == "q"
URL_PARAM_PAGE_INDEX == "page"

\* The static parameters, each value as '%s' formats it.
URL_STATIC_PARAMS ==
    [k \in {"status", "maxRecords", "dataset", "sortParam", "sortOrder"} |->
        CASE k = "status" -> <<"all">>
          [] k = "maxRecords" -> DecimalStr(1000)
          [] k = "dataset" -> <<"ESA-DATASET">>
          [] k = "sortParam" -> <<"startDate">>
          [] k = "sortOrder" -> <<"descending">>]

\* The order in which build_request inserts keys into url_params (a dict keeps
\* insertion order; update() appends the static keys after the filter's).
KeyOrder ==
    <<URL_PARAM_PRODUCT_IDENTIFIER, URL_PARAM_PRODUCT_TYPE, URL_PARAM_MISSION,
      URL_PARAM_OBSERVATIONDATE_AFTER, URL_PARAM_OBSERVATIONDATE_BEFORE,
      URL_PARAM_PUBLISHED_AFTER, URL_PARAM_PUBLISHED_BEFORE,
      URL_PARAM_CLOUD_COVER, URL_PARAM_GEOMETRY, URL_PARAM_TEXTUAL_SEARCH,
      "status", "maxRecords", "dataset", "sortParam", "sortOrder">>

-----------------------------------------------------------------------------
(* build_request.  A filter is a record of the ten keyword arguments, each *)
(* None or Some(value): a string, or a natural number for cloudCoverageMax.*)

FilterFields ==
    {"productIdentifier", "productType", "mission", "obsDateMin", "obsDateMax",
     "publicationDateMin", "publicationDateMax", "cloudCoverageMax",
     "geometry", "textualSearch"}

DateFields == <<"obsDateMin", "obsDateMax", "publicationDateMin", "publicationDateMax">>

\* The catalogue key each keyword argument is mapped to.
KeyOf(field) ==
    CASE field = "productIdentifier" -> URL_PARAM_PRODUCT_IDENTIFIER
      [] field = "productType" -> URL_PARAM_PRODUCT_TYPE
      [] field = "mission" -> URL_PARAM_MISSION
      [] field = "obsDateMin" -> URL_PARAM_OBSERVATIONDATE_AFTER
      [] field = "obsDateMax" -> URL_PARAM_OBSERVATIONDATE_BEFORE
      [] field = "publicationDateMin" -> URL_PARAM_PUBLISHED_AFTER
      [] field = "publicationDateMax" -> URL_PARAM_PUBLISHED_BEFORE
      [] field = "cloudCoverageMax" -> URL_PARAM_CLOUD_COVER
      [] field = "geometry" -> URL_PARAM_GEOMETRY
      [] field = "textualSearch" -> URL_PARAM_TEXTUAL_SEARCH

\* Python's truth test "if x:" of an argument: None, "" and 0 are false.
Truthy(field, o) ==
    /\ o # None
    /\ IF field = "cloudCoverageMax" THEN Val(o) # 0 ELSE Val(o) # <<>>

\* The value build_request stores for a keyword argument that passed "if x:".
EncodeField(field, v) ==
    CASE field = "productIdentifier" -> <<"%25">> \o StrUpper(v) \o <<"%25">>
      [] field \in {"productType", "mission"} -> StrUpper(v)
      [] field \in Range(DateFields) -> v
      [] field = "cloudCoverageMax" -> <<"[", "0", ",">> \o DecimalStr(v) \o <<"]">>
      [] field = "geometry" -> v
      [] field = "textualSearch" -> ReplaceSpaces(v)

\* The keyword arguments whose "if x:" branch build_request takes.
TakenFields(f) == {field \in FilterFields : Truthy(field, f[field])}

\* The first date argument, in the order of the code, that validate_Rfc3339
\* rejects; 0 when there is none.
FirstBadDate(f) ==
    LET bad == {i \in DOMAIN DateFields :
                    /\ Truthy(DateFields[i], f[DateFields[i]])
                    /\ ~Rfc3339Ok(Val(f[DateFields[i]]))}
    IN  IF bad = {} THEN 0 ELSE CHOOSE i \in bad : \A j \in bad : i <= j

\* url_params before the static parameters are added.
FilterParams(f) ==
    [k \in {KeyOf(field) : field \in TakenFields(f)} |->
        LET field == CHOOSE fd \in TakenFields(f) : KeyOf(fd) = k
        IN  EncodeField(field, Val(f[field]))]

\* dict.update: the entries of d, overridden and extended by those of e.
DictUpdate(d, e) ==
    [k \in DOMAIN d \cup DOMAIN e |-> IF k \in DOMAIN e THEN e[k] ELSE d[k]]

\* The keys of a dict in insertion order.
KeysInOrder(d) == SelectSeq(KeyOrder, LAMBDA k : k \in DOMAIN d)

\* URL_ROOT + '?' + '&'.join(['%s=%s' % (key, value) for key, value in items])
FormatRequest(d) ==
    LET keys == KeysInOrder(d) IN
    URL_ROOT \o <<"?">> \o
        Join(<<"&">>, [i \in DOMAIN keys |-> <<keys[i], "=">> \o d[keys[i]]])

\* A builder that issues the unconstrained search for an empty filter.
build_request_unconstrained(f) ==
    IF FirstBadDate(f) # 0
    THEN [outcome |-> "raise", field |-> DateFields[FirstBadDate(f)],
          params |-> <<>>, request |-> None]
    ELSE LET d == DictUpdate(FilterParams(f), URL_STATIC_PARAMS) IN
         [outcome |-> "set", field |-> "", params |-> d,
          request |-> Some(FormatRequest(d))]

\* What build_request does with a filter: "raise" (a ValueError out of
\* validate_Rfc3339), "exit" (sys.exit(-2), no parameter) or "set" (the request
\* is stored by set_hrsi_http_request), with url_params as it then stands.
build_request(f) ==
    IF FirstBadDate(f) # 0
    THEN [outcome |-> "raise", field |-> DateFields[FirstBadDate(f)],
          params |-> <<>>, request |-> None]
    ELSE IF DOMAIN FilterParams(f) = {}
    THEN [outcome |-> "exit", field |-> "", params |-> <<>>, request |-> None]
    ELSE LET d == DictUpdate(FilterParams(f), URL_STATIC_PARAMS) IN
         [outcome |-> "set", field |-> "", params |-> d,
          request |-> Some(FormatRequest(d))]

-----------------------------------------------------------------------------
(* The catalogue's answers and the feature extractor.                      *)
(*                                                                         *)
(* A feature is [url, title, absent]: the two properties the program keeps *)
(* and the one path of the record that is absent ("none" when the record   *)
(* is complete).  The other properties are read and dropped by the code,   *)
(* so only their presence is modelled.                                     *)

Urls == {<<"u">>, <<"v">>}
Titles == {<<"t">>, <<"d", "/", "t">>}

\* The (url, title) pairs the catalogue's records carry.
Refs == Urls \X Titles

\* The properties read_hrsi_feature reads, in the order it reads them; the
\* second component is the chain of keys applied to the value read.
ReadSteps ==
    << <<"productIdentifier", <<>> >>, <<"title", <<>> >>, <<"startDate", <<>> >>,
       <<"productType", <<>> >>, <<"mission", <<>> >>,
       <<"services", <<"download", "url">> >>,
       <<"services", <<"download", "size">> >>,
       <<"published", <<>> >> >>

\* The paths of a record that can be absent.
AbsentPaths ==
    {"properties", "productIdentifier", "title", "startDate", "productType",
     "mission", "services", "services.download", "services.download.url",
     "services.download.size", "published"}

\* The fields the specification of the extractor calls required.
RequiredFields ==
    {"productIdentifier", "title", "startDate", "productType", "mission",
     "services.download.url", "services.download.size", "published"}

Feature(ref, absent) == [url |-> ref[1], title |-> ref[2], absent |-> absent]

\* The exception of one read step on a feature, or None when the step succeeds.
\* read_json_param turns a KeyError of feature['properties'][json_param] into
\* an Exception naming the index and the parameter; the ['download'][...]
\* lookups are made outside it, on its result, and raise a bare KeyError.
StepError(feature, feature_index, step) ==
    LET json_param == step[1]
        chain == step[2]
    IN  IF feature.absent \in {"properties", json_param}
        THEN Some([type |-> "Exception", names |-> <<json_param>>,
                   index |-> Some(feature_index)])
        ELSE IF chain # <<>> /\ feature.absent = "services.download"
        THEN Some([type |-> "KeyError", names |-> <<"download">>, index |-> None])
        ELSE IF chain # <<>> /\ feature.absent =
                    (IF chain[2] = "url" THEN "services.download.url"
                     ELSE "services.download.size")
        THEN Some([type |-> "KeyError", names |-> <<chain[2]>>, index |-> None])
        ELSE None

\* read_hrsi_feature: the exception of the first failing read, or the
\* (url, title) pair.
read_hrsi_feature(feature, feature_index) ==
    LET failing == {i \in DOMAIN ReadSteps :
                        StepError(feature, feature_index, ReadSteps[i]) # None}
    IN  IF failing = {}
        THEN [ok |-> TRUE, ref |-> <<feature.url, feature.title>>, exc |-> None]
        ELSE LET first == CHOOSE i \in failing : \A j \in failing : i <= j
             IN  [ok |-> FALSE, ref |-> <<>>,
                  exc |-> StepError(feature, feature_index, ReadSteps[first])]

\* A page response: ok is the truth value of the requests.Response (status
\* below 400), features the 'features' entry of its JSON body, None when the
\* body has no such entry.  The body of a response that is not ok is not read.
NoFeatures(ok) == [ok |-> ok, features |-> None]
Page(features) == [ok |-> TRUE, features |-> Some(features)]

\* The total number of results a body advertises (properties.totalResults),
\* which the comment of lines 221-222 calls wrong and inconsistent: none, or
\* as many as a full page.
TotalCounts == {0, 1000}

\* The totals the bodies of a run advertise.  The code reads 'features' and
\* nothing else of a body, so a response holds no total, except in the
\* specification that varies it, which carries the totals in
\* args.totalResults.
AdvertisedTotals == IF "totalResults" \in DOMAIN args THEN args.totalResults ELSE {}

\* A response whose body advertises a total number of results.
Advertising(response, total) == [totalResults |-> total] @@ response

\* The pages the catalogue can answer with when it still holds n features:
\* an error, a body without 'features', any list of complete records (under
\* any total advertised), or complete records followed by one record with an
\* absent path.
PageResponses(n) ==
    {NoFeatures(TRUE), NoFeatures(FALSE)}
    \cup {Page([i \in DOMAIN q |-> Feature(q[i], "none")]) : q \in SeqsUpTo(Refs, n)}
    \cup {Advertising(Page([i \in DOMAIN q |-> Feature(q[i], "none")]), total) :
            q \in SeqsUpTo(Refs, n), total \in AdvertisedTotals}
    \cup {Page([i \in 1..k |->
                 IF i < k THEN Feature(<<<<"u">>, <<"t">>>>, "none")
                 ELSE Feature(<<<<"u">>, <<"t">>>>, a)]) :
            k \in 1..n, a \in AbsentPaths}

\* A page request that adds the static parameters to the request it is given.
current_page_static(http_request, page_index) ==
    LET keys == KeysInOrder(URL_STATIC_PARAMS) IN
    http_request
        \o Concat([i \in DOMAIN keys |-> <<"&", keys[i], "=">> \o URL_STATIC_PARAMS[keys[i]]])
        \o <<"&", URL_PARAM_PAGE_INDEX, "=">> \o DecimalStr(page_index)

\* http_request + '&page=' + str(page_index)
current_page(http_request, page_index) ==
    http_request \o <<"&", URL_PARAM_PAGE_INDEX, "=">> \o DecimalStr(page_index)

RECURSIVE ReadFeatures(_, _, _)
\* The loop of request_page over enumerate(features), from index i on: the
\* products appended before the first exception, and that exception.
ReadFeatures(features, i, acc) ==
    IF i > Len(features) THEN [products |-> acc, exc |-> None]
    ELSE LET r == read_hrsi_feature(features[i], i - 1)
         IN  IF r.ok THEN ReadFeatures(features, i + 1, Append(acc, r.ref))
             ELSE [products |-> acc, exc |-> r.exc]

\* The exception raised in request_page's "except KeyError" branch: the
\* arguments of logging.error name url_params_page, which nothing defines, so
\* evaluating them raises NameError before logging.error is called.
MissingFeaturesError ==
    [type |-> "NameError", names |-> <<"url_params_page">>, index |-> None]

\* A request_page that keeps what it could read and raises nothing.
request_page_lenient(response) ==
    LET json_root_features == IF response.ok THEN response.features ELSE None
    IN  IF json_root_features = None
        THEN [products |-> <<>>, exc |-> None]
        ELSE [products |-> ReadFeatures(Val(json_root_features), 1, <<>>).products,
              exc |-> None]

\* request_page on a response: the products returned, or the exception raised.
request_page(response) ==
    LET json_root_features == IF response.ok THEN response.features ELSE None
    IN  IF json_root_features = None
        THEN [products |-> <<>>, exc |-> Some(MissingFeaturesError)]
        ELSE ReadFeatures(Val(json_root_features), 1, <<>>)

-----------------------------------------------------------------------------
(* execute_request: the loop's exit test and the result list.              *)

\* A first exit condition that trusts the total the last body advertised:
\* it ends the loop when the catalogue says there are no results.
first_exit_condition_total(max_requested_pages, n) ==
    /\ fetched # <<>>
    /\ "totalResults" \in DOMAIN fetched[Len(fetched)]
    /\ fetched[Len(fetched)].totalResults = 0

\* A first exit condition that is one page late.
first_exit_condition_late(max_requested_pages, n) ==
    max_requested_pages # None /\ n > Val(max_requested_pages)

first_exit_condition(max_requested_pages, n) ==
    max_requested_pages # None /\ n >= Val(max_requested_pages)

\* A loop that does not stop at an empty page.
second_exit_condition_never(hrsi_products_aux) == FALSE

\* The second exit condition: "if not hrsi_products_aux: break".
second_exit_condition(hrsi_products_aux) == hrsi_products_aux = <<>>

\* A line written with another separator than the one download splits on.
ResultLine_comma(res) == Join(<<",">>, res) \o <<"\n">>

\* ";".join(res) + "\n" for one (url, title) pair.
ResultLine(res) == Join(<<";">>, res) \o <<"\n">>

\* f.writelines(...) over the set in the iteration order q.
ResultContent(q) == Concat([i \in DOMAIN q |-> ResultLine(q[i])])

OUTPUT_RESULT_FILE == "out/result_file.txt"

-----------------------------------------------------------------------------
(* download: reading the credential file and the result list.              *)

\* f.readline(): the first line of the content, "" for an empty file.
ReadLine(content) ==
    IF ReadLines(content) = <<>> THEN <<>> ELSE ReadLines(content)[1]

\* credentials = f.readline().rstrip().split(':')
ParseCredentials(content) == Split(RStrip(ReadLine(content)), ":")

\* product_list = [x.strip().split(';') for x in content if x.strip()]
ParseResultList(content) ==
    LET lines == ReadLines(content)
        kept == SelectSeq(lines, LAMBDA x : Strip(x) # <<>>)
    IN  [i \in DOMAIN kept |-> Split(Strip(kept[i]), ";")]

-----------------------------------------------------------------------------
(* download: one attempt for one product (the body of the try block).      *)

AUTH_URL ==
    <<"https://cryo.land.copernicus.eu/auth/realms/cryo/protocol/openid-connect/token">>

\* One network call: op is "page", "token", "probe" or "transfer"; item is the
\* page index or the position of the product in product_list; data is what
\* the call sends besides the url.
NetCall(op, url, item, data) == [op |-> op, url |-> url, item |-> item, data |-> data]

LogEntry(level, msg, data) == [level |-> level, msg |-> msg, data |-> data]

\* What the authentication endpoint can answer: ran is FALSE when curl exits
\* with an error or prints something eval cannot evaluate.
TokenResponses ==
    {[ran |-> FALSE, error |-> FALSE, access_token |-> FALSE]}
    \cup {[ran |-> TRUE, error |-> e, access_token |-> a] : e, a \in BOOLEAN}

\* What the header probe (curl -sI) can answer: filename is the first match of
\* "filename=(\S+)" cut at '\r', None when the headers hold no match.
ProbeResponses ==
    {[ran |-> FALSE, filename |-> None]}
    \cup {[ran |-> TRUE, filename |-> f] :
            f \in {None, Some(<<"f", ".zip">>), Some(<<"f", ".txt">>)}}

Failure(type, names) == Some([type |-> type, names |-> names, index |-> None])

\* A __get_token__ that keeps the first token it got and asks for no other.
get_token_cached(creds, item, serial, tr) ==
    IF Len(creds) < 2
    THEN [events |-> <<>>, logs |-> <<>>, token |-> None,
          exc |-> Failure("IndexError", <<"credentials">>)]
    ELSE IF serial > 1
    THEN [events |-> <<>>, logs |-> <<>>, token |-> Some(<<"T">> \o DecimalStr(1)),
          exc |-> None]
    ELSE [events |-> <<NetCall("token", AUTH_URL, item, <<creds[1], creds[2]>>)>>,
          logs |-> <<>>, token |-> Some(<<"T">> \o DecimalStr(serial)), exc |-> None]

\* __get_token__: the network calls made, the log entries written, and the
\* token returned or the exception raised.  serial numbers the token the
\* endpoint issues.
get_token(creds, item, serial, tr) ==
    IF Len(creds) < 2
    THEN [events |-> <<>>, logs |-> <<>>, token |-> None,
          exc |-> Failure("IndexError", <<"credentials">>)]
    ELSE LET call == NetCall("token", AUTH_URL, item, <<creds[1], creds[2]>>)
             logs == IF tr.ran /\ tr.error
                     THEN <<LogEntry("ERROR",
                                "Following error occured when getting the token", <<>>)>>
                     ELSE <<>>
         IN  IF ~tr.ran
             THEN [events |-> <<call>>, logs |-> <<>>, token |-> None,
                   exc |-> Failure("CalledProcessError", <<"curl">>)]
             ELSE IF ~tr.access_token
             THEN [events |-> <<call>>, logs |-> logs, token |-> None,
                   exc |-> Failure("KeyError", <<"access_token">>)]
             ELSE [events |-> <<call>>, logs |-> logs,
                   token |-> Some(<<"T">> \o DecimalStr(serial)), exc |-> None]

\* A file name made of the whole title.
TitleFilename_whole(info_product) ==
    IF Len(info_product) >= 2 THEN Some(info_product[2] \o <<".zip">>) ELSE None

\* dl_filename as download computes it from a product_list entry.
TitleFilename(info_product) ==
    IF Len(info_product) >= 2
    THEN LET parts == Split(info_product[2], "/")
         IN  Some(parts[Len(parts)] \o <<".zip">>)
    ELSE None

\* A download_with_curl that skips the transfer to a file that is there.
download_with_curl_skip(product_url, dl_filename, item, pr, xr) ==
    IF dl_filename # None /\ (<<"out/">> \o Val(dl_filename)) \in Range(stored)
    THEN [events |-> <<>>, path |-> Some(<<"out/">> \o Val(dl_filename)), exc |-> None]
    ELSE IF dl_filename = None
    THEN [events |-> <<NetCall("probe", product_url, item, <<>>)>>, path |-> None,
          exc |-> Failure("CalledProcessError", <<"curl">>)]
    ELSE LET hrsi_filepath == <<"out/">> \o Val(dl_filename)
             transfer == NetCall("transfer", product_url, item, hrsi_filepath)
         IN  IF xr
             THEN [events |-> <<transfer>>, path |-> Some(hrsi_filepath), exc |-> None]
             ELSE [events |-> <<transfer>>, path |-> None,
                   exc |-> Failure("CalledProcessError", <<"curl">>)]

\* download_with_curl: the probe when dl_filename is None, then the transfer.
download_with_curl(product_url, dl_filename, item, pr, xr) ==
    LET probe == NetCall("probe", product_url, item, <<>>)
        probed == dl_filename = None
        pre == IF probed THEN <<probe>> ELSE <<>>
    IN  IF probed /\ ~pr.ran
        THEN [events |-> pre, path |-> None,
              exc |-> Failure("CalledProcessError", <<"curl">>)]
        ELSE IF probed /\ pr.filename = None
        THEN [events |-> pre, path |-> None,
              exc |-> Failure("IndexError", <<"filename">>)]
        ELSE IF probed /\ ~EndsWith(Val(pr.filename), <<".zip">>)
        THEN [events |-> pre, path |-> None,
              exc |-> Failure("AssertionError", <<"filename">>)]
        ELSE LET name == IF probed THEN Val(pr.filename) ELSE Val(dl_filename)
                 hrsi_filepath == <<"out/">> \o name
                 transfer == NetCall("transfer", product_url, item, hrsi_filepath)
             IN  IF xr
                 THEN [events |-> Append(pre, transfer), path |-> Some(hrsi_filepath),
                       exc |-> None]
                 ELSE [events |-> Append(pre, transfer), path |-> None,
                       exc |-> Failure("CalledProcessError", <<"curl">>)]

\* The try block of download for the product at position item.
Attempt(info_product, creds, item, serial, tr, pr, xr) ==
    LET product_url == info_product[1]
        tok == get_token(creds, item, serial, tr)
    IN  IF tok.exc # None
        THEN [events |-> tok.events, logs |-> tok.logs, path |-> None, exc |-> tok.exc]
        ELSE LET adress == product_url \o <<"?token=">> \o Val(tok.token)
                 dl == download_with_curl(adress, TitleFilename(info_product),
                                          item, pr, xr)
             IN  [events |-> tok.events \o dl.events,
                  logs |-> tok.logs \o
                           (IF dl.exc = None
                            THEN <<LogEntry("INFO", "Product successfully downloaded",
                                            Val(dl.path))>>
                            ELSE <<>>),
                  path |-> dl.path, exc |-> dl.exc]

\* The number of retries the loop is written to allow.
max_retry == 1

-----------------------------------------------------------------------------
(* The inputs of a run: the command line, or a library call, and the files *)
(* on disk when it starts.                                                 *)

Modes == {"query", "query_and_download", "download"}

EmptyFilter == [field \in FilterFields |-> None]

\* -productType fsc
TypeFilter == [EmptyFilter EXCEPT !["productType"] = Some(<<"f", "s", "c">>)]

\* -productType fsc -obsDateMin 2020-06-02
BadDateFilter ==
    [TypeFilter EXCEPT !["obsDateMin"] =
        Some(<<"2", "0", "2", "0", "-", "0", "6", "-", "0", "2">>)]

\* -cloudCoverageMax 0
CloudZeroFilter == [EmptyFilter EXCEPT !["cloudCoverageMax"] = Some(0)]

FilterSamples == {EmptyFilter, TypeFilter, BadDateFilter, CloudZeroFilter}

\* A query built in the HR-S&I finder, as given with -queryURL.
PortalQuery == URL_ROOT \o <<"?", "productType", "=", "F", "S", "C">>

CREDENTIAL_FILE == "hrsi_auth.txt"
USER_RESULT_FILE == "list.txt"

FileNames == {OUTPUT_RESULT_FILE, USER_RESULT_FILE, CREDENTIAL_FILE}

\* The lines a supplied result list is made of: url and title, a url alone, a
\* url and a title with a path, a blank line.
UserLines ==
    {<<"u", ";", "t", "\n">>, <<"u", "\n">>, <<"v", ";", "d", "/", "t", "\n">>, <<"\n">>}

UserContents == {Concat(ls) : ls \in SeqsUpTo(UserLines, MaxList)}

\* What an earlier run left in the output directory.
OldContent == <<"o", "l", "d", ";", "o", "l", "d", "\n">>

\* The query arguments: filters alone, or -queryURL (the filters are then not
\* read).
QueryArgs ==
    {<<None, f>> : f \in FilterSamples} \cup {<<Some(PortalQuery), EmptyFilter>>}

MakeArgs(mode, queryURL, filter, cred, rf, ceiling) ==
    [mode |-> mode, queryURL |-> queryURL, filter |-> filter,
     hrsi_credentials |-> cred, result_file |-> rf, max_requested_pages |-> ceiling]

\* The command lines of main.  Arguments a mode never reads are left out, but
\* for -result_file in query_and_download mode; main calls execute_request()
\* without a page ceiling.
MainArgs ==
    {MakeArgs("query", qf[1], qf[2], None, None, None) : qf \in QueryArgs}
    \cup {MakeArgs("query_and_download", qf[1], qf[2], c, r, None) :
        qf \in QueryArgs,
        c \in {None, Some(CREDENTIAL_FILE)}, r \in {None, Some(USER_RESULT_FILE)}}
    \cup {MakeArgs("download", None, EmptyFilter, c, r, None) :
        c \in {None, Some(CREDENTIAL_FILE)}, r \in {None, Some(USER_RESULT_FILE)}}

\* A program that imports the class: set_hrsi_http_request(q) when q is given,
\* then execute_request(max_requested_pages).
LibraryArgs ==
    {MakeArgs("library", q, EmptyFilter, None, None, c) :
        q \in {None, Some(PortalQuery)},
        c \in {None} \cup {Some(n) : n \in 0..MaxCeiling}}

\* What a credential file holds: "login:password", or a line without ':'.
CredentialLines == {<<"l", ":", "p", "\n">>, <<"l", "\n">>}

\* The disks a run with arguments a can start on.
Disks(a) ==
    {[n \in FileNames |->
        CASE n = OUTPUT_RESULT_FILE -> old
          [] n = USER_RESULT_FILE -> list
          [] n = CREDENTIAL_FILE -> cred] :
        old \in {None, Some(OldContent)},
        list \in IF a.result_file = None THEN {None}
                 ELSE IF a.mode = "download"
                      THEN {None} \cup {Some(c) : c \in UserContents}
                      ELSE {Some(<<"v", ";", "t", "\n">>)},
        cred \in IF a.hrsi_credentials = None THEN {None}
                 ELSE {None} \cup {Some(c) : c \in CredentialLines}}

-----------------------------------------------------------------------------
(* The state after HRSIRequest.__init__ and argument parsing.              *)

InitFields ==
    /\ hrsi_http_request = None
    /\ hrsi_credential = None
    /\ result_file = None
    /\ url_params = <<>>
    /\ requested_pages = 0
    /\ hrsi_products = <<>>
    /\ fetched = <<>>
    /\ net = <<>>
    /\ log = <<>>
    /\ exc = None
    /\ credentials = <<>>
    /\ product_list = <<>>
    /\ idx = 0
    /\ ntries = 0
    /\ attempts = <<>>
    /\ slept = <<>>
    /\ stored = <<>>

Init ==
    /\ args \in MainArgs \cup LibraryArgs
    /\ disk \in Disks(args)
    /\ pc = IF args.mode = "library" THEN "library" ELSE "main"
    /\ InitFields

-----------------------------------------------------------------------------
(* main, up to the call of execute_request (lines 457-478).                *)

Log(entries) == log' = log \o entries

MainQuery ==
    /\ pc = "main"
    /\ IF args.mode \in {"query", "query_and_download"}
       THEN IF args.queryURL # None /\ Val(args.queryURL) # <<>>
            THEN /\ hrsi_http_request' = args.queryURL
                 /\ pc' = "execute_request"
                 /\ UNCHANGED <<url_params, log, exc>>
            ELSE LET r == build_request(args.filter) IN
                 /\ url_params' = r.params
                 /\ hrsi_http_request' =
                        IF r.outcome = "set" THEN r.request ELSE hrsi_http_request
                 /\ pc' = CASE r.outcome = "set" -> "execute_request"
                            [] r.outcome = "exit" -> "exited"
                            [] r.outcome = "raise" -> "raised"
                 /\ exc' = IF r.outcome = "raise"
                           THEN Some([type |-> "ValueError", names |-> <<r.field>>,
                                      index |-> None])
                           ELSE None
                 /\ IF r.outcome = "exit"
                    THEN Log(<<LogEntry("ERROR",
                            "No query parameters were provided, no query was generated",
                            <<>>)>>)
                    ELSE UNCHANGED log
       ELSE /\ pc' = "main_download"
            /\ UNCHANGED <<hrsi_http_request, url_params, log, exc>>
    /\ UNCHANGED <<args, disk, hrsi_credential, result_file, requested_pages,
                   hrsi_products, fetched, net, credentials, product_list, idx,
                   ntries, attempts, slept, stored>>

\* A library caller configures the request, or does not, before the search.
LibraryCall ==
    /\ pc = "library"
    /\ hrsi_http_request' = args.queryURL
    /\ pc' = "execute_request"
    /\ UNCHANGED <<args, disk, hrsi_credential, result_file, url_params,
                   requested_pages, hrsi_products, fetched, net, log, exc,
                   credentials, product_list, idx, ntries, attempts, slept, stored>>

-----------------------------------------------------------------------------
(* execute_request (lines 212-259).                                        *)

\* pc after the loop's test "while not first_exit_condition()".
LoopTest(n) ==
    IF first_exit_condition(args.max_requested_pages, n) THEN "finish" ELSE "loop"

\* Lines 212-234: the check of the request, the counters, the first loop test.
ExecuteRequest ==
    /\ pc = "execute_request"
    /\ IF hrsi_http_request = None
       THEN /\ Log(<<LogEntry("ERROR",
                    "No hrsi_http_request was provided or configured", <<>>)>>)
            /\ pc' = "exited"
            /\ UNCHANGED <<requested_pages, hrsi_products>>
       ELSE /\ requested_pages' = 0
            /\ hrsi_products' = <<>>
            /\ pc' = LoopTest(0)
            /\ UNCHANGED log
    /\ UNCHANGED <<args, disk, hrsi_http_request, hrsi_credential, result_file,
                   url_params, fetched, net, exc, credentials, product_list, idx,
                   ntries, attempts, slept, stored>>

\* The number of features the catalogue has returned so far.
RECURSIVE FeatureCount(_)
FeatureCount(pages) ==
    IF pages = <<>> THEN 0
    ELSE (IF Head(pages).features = None THEN 0 ELSE Len(Val(Head(pages).features)))
         + FeatureCount(Tail(pages))

\* Lines 235-243 with request_page: one iteration of the loop and the next
\* loop test.
RequestPage ==
    /\ pc = "loop"
    /\ \E response \in PageResponses(MaxFeatures - FeatureCount(fetched)) :
        LET page_index == requested_pages + 1
            r == request_page(response)
        IN  /\ requested_pages' = page_index
            /\ net' = Append(net, NetCall("page",
                        current_page(Val(hrsi_http_request), page_index),
                        page_index, <<>>))
            /\ fetched' = Append(fetched, response)
            /\ IF r.exc # None
               THEN /\ exc' = r.exc
                    /\ pc' = "raised"
                    /\ UNCHANGED hrsi_products
               ELSE IF second_exit_condition(r.products)
               THEN /\ pc' = "finish"
                    /\ UNCHANGED <<hrsi_products, exc>>
               ELSE /\ hrsi_products' = hrsi_products \o r.products
                    /\ pc' = LoopTest(page_index)
                    /\ UNCHANGED exc
    /\ UNCHANGED <<args, disk, hrsi_http_request, hrsi_credential, result_file,
                   url_params, log, credentials, product_list, idx, ntries,
                   attempts, slept, stored>>

\* The log entry of line 250.
DuplicateWarning == LogEntry("WARNING", "Duplicated HRSI products found.", <<>>)

\* Lines 245-259: the set of the products, the warning, the result file.  A
\* set is written in its iteration order, which is any order: hrsi_products
\* becomes the set, held as its elements in that order.
FinishSearch ==
    /\ pc = "finish"
    /\ LET total_count == Len(hrsi_products)
           products == ToSet(hrsi_products)
       IN  /\ Log(IF Cardinality(products) # total_count
                  THEN <<DuplicateWarning>> ELSE <<>>)
           /\ result_file' = Some(OUTPUT_RESULT_FILE)
           /\ \E q \in Orderings(products) :
                /\ hrsi_products' = q
                /\ disk' = [disk EXCEPT ![OUTPUT_RESULT_FILE] = Some(ResultContent(q))]
    /\ pc' = IF args.mode = "library" THEN "done" ELSE "main_download"
    /\ UNCHANGED <<args, hrsi_http_request, hrsi_credential, url_params,
                   requested_pages, fetched, net, exc, credentials,
                   product_list, idx, ntries, attempts, slept, stored>>

-----------------------------------------------------------------------------
(* main from line 483 on, and download up to its loop (lines 337-371).     *)

IOError(name) == Some([type |-> "IOError", names |-> <<name>>, index |-> None])

\* The checks and reads of download before its loop, in the order of the
\* code, for credential file name cred (or None) and result file name rf (or
\* None): how it ends ("exit", "raise" or "loop"), what it logged, and the
\* credentials and product list it got to.
download_prologue(cred, rf, d) ==
    IF cred = None
    THEN [end |-> "exit", exc |-> None, credentials |-> <<>>, product_list |-> <<>>,
          logs |-> <<LogEntry("ERROR", "No HR-S&I credential file was provided", <<>>)>>]
    ELSE IF d[Val(cred)] = None
    THEN [end |-> "raise", exc |-> IOError(Val(cred)),
          credentials |-> <<>>, product_list |-> <<>>,
          logs |-> <<LogEntry("ERROR", "Error while parsing credential file", <<>>)>>]
    ELSE LET creds == ParseCredentials(Val(d[Val(cred)])) IN
         IF rf = None
         THEN [end |-> "exit", exc |-> None, credentials |-> creds,
               product_list |-> <<>>,
               logs |-> <<LogEntry("ERROR", "No result_file was provided", <<>>)>>]
         ELSE IF d[Val(rf)] = None
         THEN [end |-> "raise", exc |-> IOError(Val(rf)), credentials |-> creds,
               product_list |-> <<>>,
               logs |-> <<LogEntry("ERROR", "Error while parsing result_file file",
                                   <<>>)>>]
         ELSE [end |-> "loop", exc |-> None, credentials |-> creds,
               product_list |-> ParseResultList(Val(d[Val(rf)])), logs |-> <<>>]

\* A main that takes -result_file in every mode.
ResultFileOfMode_any(mode, argument, current) ==
    IF argument # None /\ Val(argument) # "" THEN argument ELSE current

\* Lines 484-486: the result file after "if args.download: if args.result_file:
\* hrsi.set_result_file(args.result_file)", current being the one set so far.
ResultFileOfMode(mode, argument, current) ==
    IF mode = "download" /\ argument # None /\ Val(argument) # ""
    THEN argument ELSE current

\* Lines 483-497: the result file of download mode, the credential, download.
MainDownload ==
    /\ pc = "main_download"
    /\ LET given == args.result_file # None /\ Val(args.result_file) # ""
           rf == ResultFileOfMode(args.mode, args.result_file, result_file)
           missing == IF args.mode = "download" /\ ~given
                      THEN <<LogEntry("ERROR", "No HR-S&I result file was provided",
                                      <<>>)>>
                      ELSE <<>>
       IN  /\ result_file' = rf
           /\ IF args.mode \in {"query_and_download", "download"}
              THEN LET r == download_prologue(args.hrsi_credentials, rf, disk) IN
                   /\ hrsi_credential' = args.hrsi_credentials
                   /\ credentials' = r.credentials
                   /\ product_list' = r.product_list
                   /\ attempts' = [i \in DOMAIN r.product_list |-> <<>>]
                   /\ exc' = r.exc
                   /\ Log(missing \o r.logs)
                   /\ idx' = IF r.end = "loop" /\ r.product_list # <<>> THEN 1 ELSE idx
                   /\ pc' = CASE r.end = "exit" -> "exited"
                              [] r.end = "raise" -> "raised"
                              [] r.end = "loop" ->
                                    IF r.product_list = <<>> THEN "done" ELSE "download"
              ELSE /\ pc' = "done"
                   /\ Log(missing)
                   /\ UNCHANGED <<hrsi_credential, credentials, product_list,
                                  attempts, exc, idx>>
    /\ UNCHANGED <<args, disk, hrsi_http_request, url_params, requested_pages,
                   hrsi_products, fetched, net, ntries, slept, stored>>

-----------------------------------------------------------------------------
(* download's loop (lines 372-398): one pass of the while loop's body.     *)

\* The number of token exchanges issued so far.
TokenCalls == Len(SelectSeq(net, LAMBDA c : c.op = "token"))

\* A delay that does not grow.
Backoff_constant(n) == 5

\* 5.*ntries, the argument of time.sleep.
Backoff(n) == 5 * n

\* The value of max_retry in the loop.  In a run of the program it is the
\* literal of line 375.  The loop run under another bound B, as the program
\* is after that literal alone is changed, carries B in args.max_retry.
RetryBound == IF "max_retry" \in DOMAIN args THEN args.max_retry ELSE max_retry

\* The loop test "while(ntries < max_retry)".
TryAgain(n) == n < RetryBound

\* An except branch that re-raises one failure late, after the while loop
\* has given the product up.
GivesUp_late(n) == n = RetryBound + 1

\* An except branch that never re-raises.
GivesUp_never(n) == FALSE

\* The test "if ntries == max_retry" of the except branch, which re-raises.
GivesUp(n) == n = RetryBound

\* Each step is one pass of the while loop's body for product_list[idx]; a
\* pass that ends the while loop, by break or by its test, moves the for loop
\* to the next product or ends download and main.
DownloadAttempt ==
    /\ pc = "download"
    /\ \E tr \in TokenResponses, pr \in ProbeResponses, xr \in BOOLEAN :
        LET a == Attempt(product_list[idx], credentials, idx, TokenCalls + 1,
                         tr, pr, xr)
        IN  /\ net' = net \o a.events
            /\ attempts' = [attempts EXCEPT
                    ![idx] = Append(@, IF a.exc = None THEN "ok" ELSE "failed")]
            /\ IF a.exc = None
               THEN /\ Log(a.logs)
                    /\ stored' = Append(stored, Val(a.path))
                    /\ ntries' = 0
                    /\ idx' = IF idx < Len(product_list) THEN idx + 1 ELSE idx
                    /\ pc' = IF idx < Len(product_list) THEN "download" ELSE "done"
                    /\ UNCHANGED <<exc, slept>>
               ELSE /\ IF GivesUp(ntries + 1)
                       THEN /\ exc' = a.exc
                            /\ pc' = "raised"
                            /\ ntries' = ntries + 1
                            /\ Log(a.logs)
                            /\ UNCHANGED <<slept, idx>>
                       ELSE /\ slept' = Append(slept, Backoff(ntries + 1))
                            /\ Log(Append(a.logs,
                                    LogEntry("INFO", "try failed, retrying",
                                             DecimalStr(ntries + 1))))
                            /\ ntries' = IF TryAgain(ntries + 1) THEN ntries + 1 ELSE 0
                            /\ idx' = IF ~TryAgain(ntries + 1) /\ idx < Len(product_list)
                                      THEN idx + 1 ELSE idx
                            /\ pc' = IF TryAgain(ntries + 1) \/ idx < Len(product_list)
                                     THEN "download" ELSE "done"
                            /\ UNCHANGED exc
                    /\ UNCHANGED stored
    /\ UNCHANGED <<args, disk, hrsi_http_request, hrsi_credential, result_file,
                   url_params, requested_pages, hrsi_products, fetched,
                   credentials, product_list>>

-----------------------------------------------------------------------------
Next ==
    \/ MainQuery
    \/ LibraryCall
    \/ ExecuteRequest
    \/ RequestPage
    \/ FinishSearch
    \/ MainDownload
    \/ DownloadAttempt

Spec == Init /\ [][Next]_vars

-----------------------------------------------------------------------------
(* The query builder on its own: main in query mode without -queryURL, for *)
(* every filter made of the values below.                                  *)

ValidDate ==
    <<"2", "0", "2", "0", "-", "0", "6", "-", "0", "2", "T",
      "0", "0", ":", "0", "0", ":", "0", "0", "Z">>
ShortDate == <<"2", "0", "2", "0", "-", "0", "6", "-", "0", "2">>
UnpaddedDate ==
    <<"2", "0", "2", "0", "-", "6", "-", "2", "T", "0", ":", "0", ":", "0", "Z">>

DateSamples == {None, Some(ValidDate), Some(ShortDate), Some(UnpaddedDate)}

\* -cloudCoverageMax takes an integer, documented as 0-100 (percent).
CloudSamples == {None, Some(0), Some(5), Some(100)}

AllFilters ==
    [productIdentifier : {None, Some(<<"t", "3", "2">>)},
     productType : {None, Some(<<"f", "s", "c">>)},
     mission : {None, Some(<<"s", "2">>)},
     obsDateMin : DateSamples,
     obsDateMax : DateSamples,
     publicationDateMin : DateSamples,
     publicationDateMax : DateSamples,
     cloudCoverageMax : CloudSamples,
     geometry : {None, Some(<<"P", "(", "1", " ", "2", ")">>)},
     textualSearch : {None, Some(<<"a", " ", "b">>)}]

InitBuild ==
    /\ args \in {MakeArgs("query", None, f, None, None, None) : f \in AllFilters}
    /\ disk = [n \in FileNames |-> None]
    /\ pc = "main"
    /\ InitFields

NextBuild == MainQuery

SpecBuild == InitBuild /\ [][NextBuild]_vars

-----------------------------------------------------------------------------
(* The result list on its own: a query_and_download run at the end of the  *)
(* search loop, then the write and the read.  The set of pairs is empty,   *)
(* or one pair of strings over the characters that the file format gives a *)
(* meaning to, alone or together with a pair of plain strings.             *)

RTChars == {"a", ";", " ", "\n", "/"}
RTStrings == SeqsUpTo(RTChars, MaxLen)
RTPairs == RTStrings \X RTStrings
PlainPair == <<<<"u">>, <<"t">>>>
RTSets == {{}} \cup {{res} : res \in RTPairs} \cup {{res, PlainPair} : res \in RTPairs}

\* The pages a search that extracted the list q has fetched: the records of
\* q, then an empty page.
RTPages(q) ==
    IF q = <<>> THEN <<Page(<<>>)>>
    ELSE <<Page([i \in DOMAIN q |-> Feature(q[i], "none")]), Page(<<>>)>>

InitRT ==
    \E S \in RTSets :
        LET q == CHOOSE o \in Orderings(S) : TRUE IN
        /\ args = MakeArgs("query_and_download", Some(PortalQuery), EmptyFilter,
                           Some(CREDENTIAL_FILE), None, None)
        /\ disk = [n \in FileNames |->
                    IF n = CREDENTIAL_FILE THEN Some(<<"l", ":", "p", "\n">>) ELSE None]
        /\ pc = "finish"
        /\ hrsi_http_request = Some(PortalQuery)
        /\ hrsi_credential = None
        /\ result_file = None
        /\ url_params = <<>>
        /\ hrsi_products = q
        /\ fetched = RTPages(q)
        /\ requested_pages = Len(RTPages(q))
        /\ net = [i \in DOMAIN RTPages(q) |->
                    NetCall("page", current_page(PortalQuery, i), i, <<>>)]
        /\ log = <<>>
        /\ exc = None
        /\ credentials = <<>>
        /\ product_list = <<>>
        /\ idx = 0
        /\ ntries = 0
        /\ attempts = <<>>
        /\ slept = <<>>
        /\ stored = <<>>

NextRT == FinishSearch \/ MainDownload

SpecRT == InitRT /\ [][NextRT]_vars

-----------------------------------------------------------------------------
(* The download loop under every retry bound 1..MaxRetry: main in download *)
(* mode on a supplied result list of one or two entries, line 375 reading  *)
(* max_retry = B.                                                          *)

RetryLists == {<<"u", "\n">>, <<"u", "\n", "v", ";", "t", "\n">>}

InitRetry ==
    \E B \in 1..MaxRetry, list \in RetryLists :
        /\ args = [max_retry |-> B] @@
                  MakeArgs("download", None, EmptyFilter, Some(CREDENTIAL_FILE),
                           Some(USER_RESULT_FILE), None)
        /\ disk = [n \in FileNames |->
                    CASE n = OUTPUT_RESULT_FILE -> None
                      [] n = USER_RESULT_FILE -> Some(list)
                      [] n = CREDENTIAL_FILE -> Some(<<"l", ":", "p", "\n">>)]
        /\ pc = "main"
        /\ InitFields

NextRetry == MainQuery \/ MainDownload \/ DownloadAttempt

SpecRetry == InitRetry /\ [][NextRetry]_vars

-----------------------------------------------------------------------------
(* The search of a run of main in query mode, with no page ceiling, on a   *)
(* catalogue whose bodies advertise a total number of results.  The one    *)
(* process of the program takes its next step whenever it has one.         *)

InitPages ==
    /\ args = [totalResults |-> TotalCounts] @@
              MakeArgs("query", Some(PortalQuery), EmptyFilter, None, None, None)
    /\ disk \in Disks(args)
    /\ pc = "main"
    /\ InitFields

NextPages == MainQuery \/ ExecuteRequest \/ RequestPage \/ FinishSearch \/ MainDownload

SpecPages == InitPages /\ [][NextPages]_vars /\ WF_vars(NextPages)

-----------------------------------------------------------------------------
(* The program invoked again and again in download mode, with the same     *)
(* command line, on the same result list and output directory: up to       *)
(* MaxRuns invocations.  An invocation starts when the one before has      *)
(* ended; it finds the files the earlier ones stored, and nothing else of  *)
(* them: the histories are those of the invocation in progress.            *)

InitAgain ==
    \E list \in UserContents :
        /\ args = [invocation |-> 1] @@
                  MakeArgs("download", None, EmptyFilter, Some(CREDENTIAL_FILE),
                           Some(USER_RESULT_FILE), None)
        /\ disk = [n \in FileNames |->
                    CASE n = OUTPUT_RESULT_FILE -> None
                      [] n = USER_RESULT_FILE -> Some(list)
                      [] n = CREDENTIAL_FILE -> Some(<<"l", ":", "p", "\n">>)]
        /\ pc = "main"
        /\ InitFields

\* The user runs the same command again: main starts over (lines 455-458) on
\* a new HRSIRequest.
RunAgain ==
    /\ pc \in {"done", "raised", "exited"}
    /\ "invocation" \in DOMAIN args
    /\ args.invocation < MaxRuns
    /\ args' = [args EXCEPT !.invocation = @ + 1]
    /\ pc' = "main"
    /\ hrsi_http_request' = None
    /\ hrsi_credential' = None
    /\ result_file' = None
    /\ url_params' = <<>>
    /\ requested_pages' = 0
    /\ hrsi_products' = <<>>
    /\ fetched' = <<>>
    /\ net' = <<>>
    /\ log' = <<>>
    /\ exc' = None
    /\ credentials' = <<>>
    /\ product_list' = <<>>
    /\ idx' = 0
    /\ ntries' = 0
    /\ attempts' = <<>>
    /\ slept' = <<>>
    /\ UNCHANGED <<disk, stored>>

NextAgain == MainQuery \/ MainDownload \/ DownloadAttempt \/ RunAgain

SpecAgain == InitAgain /\ [][NextAgain]_vars

\* How the process ended: sys.exit(-2), an uncaught exception, or the end of
\* main.
Exited == pc = "exited"
Raised == pc = "raised"
Done == pc = "done"

-----------------------------------------------------------------------------
(* Vocabulary of the properties.                                           *)

\* The page requests issued, in order.
PageCalls == SelectSeq(net, LAMBDA c : c.op = "page")

\* The network calls download made for the product at position i.
DownloadCalls(i) ==
    {j \in DOMAIN net : net[j].op \in {"token", "probe", "transfer"} /\ net[j].item = i}

\* A page that returned zero features.
ZeroFeatures(response) == response.ok /\ response.features = Some(<<>>)

\* A page without the 'features' container.
LacksFeatures(response) == ~response.ok \/ response.features = None

\* The (url, title) pairs of the records of a page, as a list.
RefList(response) ==
    IF LacksFeatures(response) THEN <<>>
    ELSE [i \in DOMAIN Val(response.features) |->
            <<Val(response.features)[i].url, Val(response.features)[i].title>>]

\* The pairs of pages 1..k, as a list and as a set.
RefsOfPages(k) == Concat([i \in 1..k |-> RefList(fetched[i])])
RefSetOfPages(k) == Range(RefsOfPages(k))

\* execute_request has returned: it alone sets result_file to the output file.
SearchWritten == result_file = Some(OUTPUT_RESULT_FILE)

\* The lines of the result list in the output directory.
WrittenLines == ReadLines(Val(disk[OUTPUT_RESULT_FILE]))

-----------------------------------------------------------------------------
\* C1: when page k is the first page with zero features and no page ceiling
\* below k is set, the pages requested are exactly 1..k in that order, the
\* loop has stopped, and the result list written holds exactly the pairs
\* extracted from pages 1..k-1.
C1_StopsAtFirstEmptyPage ==
    \A k \in DOMAIN fetched :
        ( /\ ZeroFeatures(fetched[k])
          /\ \A j \in 1..(k - 1) : ~ZeroFeatures(fetched[j])
          /\ (args.max_requested_pages = None \/ Val(args.max_requested_pages) >= k) )
        => /\ Len(fetched) = k
           /\ Len(PageCalls) = k
           /\ \A i \in 1..k :
                /\ PageCalls[i].item = i
                /\ PageCalls[i].url = current_page(Val(hrsi_http_request), i)
           /\ pc # "loop"
           /\ pc # "finish" =>
                /\ SearchWritten
                /\ Range(hrsi_products) = RefSetOfPages(k - 1)
                /\ disk[OUTPUT_RESULT_FILE] = Some(ResultContent(hrsi_products))

\* Two pages with records, the third empty, in a run of main.
C1_Witness ==
    /\ pc = "done"
    /\ args.mode = "query"
    /\ Len(fetched) = 3
    /\ ZeroFeatures(fetched[3])
    /\ Len(WrittenLines) = 2

-----------------------------------------------------------------------------
\* C2: download allows one retry beyond the first attempt: a product whose
\* first attempt failed is still being tried (the run has not aborted, and
\* has not moved on) until a second attempt has been made.
C2_OneRetryAfterFirstFailure ==
    \A i \in DOMAIN attempts :
        attempts[i] = <<"failed">> => (pc = "download" /\ idx = i)

-----------------------------------------------------------------------------
\* C3: fail-fast.  No product is attempted more often than the retry bound;
\* and once every attempt for the product at position i, up to the bound, has
\* failed, download has raised and no token exchange, header probe or
\* transfer was made for any later product.
C3_FailFast ==
    \A i \in DOMAIN attempts :
        /\ Len(attempts[i]) <= max_retry
        /\ ( /\ Len(attempts[i]) = max_retry
             /\ \A n \in DOMAIN attempts[i] : attempts[i][n] = "failed" )
           => /\ pc = "raised"
              /\ exc # None
              /\ \A j \in DOMAIN attempts :
                    j > i => (attempts[j] = <<>> /\ DownloadCalls(j) = {})

\* The first of two products failed on every attempt.
C3_Witness ==
    /\ pc = "raised"
    /\ Len(product_list) = 2
    /\ Len(attempts[1]) = max_retry
    /\ \A n \in DOMAIN attempts[1] : attempts[1][n] = "failed"
    /\ DownloadCalls(1) # {}

-----------------------------------------------------------------------------
\* The diagnostic request_page is written to log for a page without features.
MissingFeaturesLogged ==
    \E n \in DOMAIN log :
        /\ log[n].level = "ERROR"
        /\ log[n].msg = "features entry is missing from the JSON response"

\* C4: a page response without the 'features' container is reported as an
\* error carrying the raw response and the parameters used, and the run is
\* aborted: the loop does not end normally and no result list is written.
C4_MissingFeaturesReported ==
    \A k \in DOMAIN fetched :
        LacksFeatures(fetched[k]) =>
            /\ MissingFeaturesLogged
            /\ pc = "raised"
            /\ ~SearchWritten

-----------------------------------------------------------------------------
\* C5: the result list written holds one line for each distinct (url, title)
\* pair extracted from the fetched pages and no other line; pairs that differ
\* in url or in title keep their own lines; and the duplicate warning is
\* logged exactly when the extracted list held some pair more than once.
C5_DistinctPairsOnce ==
    SearchWritten =>
        LET all == RefsOfPages(Len(fetched)) IN
        /\ Len(WrittenLines) = Cardinality(Range(all))
        /\ \A ref \in Range(all) :
            Cardinality({n \in DOMAIN WrittenLines : WrittenLines[n] = ResultLine(ref)}) = 1
        /\ (DuplicateWarning \in Range(log)) <=> (Len(all) # Cardinality(Range(all)))

\* Two pages carried the same pair: one line, and the warning.
C5_Witness ==
    /\ SearchWritten
    /\ Len(fetched) = 3
    /\ RefList(fetched[1]) = RefList(fetched[2])
    /\ Len(RefList(fetched[1])) = 1
    /\ Len(WrittenLines) = 1
    /\ DuplicateWarning \in Range(log)

-----------------------------------------------------------------------------
\* The usage errors of a command line: no credential file or no result-list
\* file for a mode that downloads, no query for a mode that searches.
UsageError ==
    \/ args.mode \in {"query_and_download", "download"} /\ args.hrsi_credentials = None
    \/ args.mode = "download" /\ args.result_file = None
    \/ /\ args.mode \in {"query", "query_and_download"}
       /\ args.queryURL = None
       /\ \A field \in FilterFields : args.filter[field] = None

\* C7: with a usage error on the command line, no network call is ever made:
\* the process exits before any page request, token exchange, probe or
\* transfer.
C7_UsageErrorBeforeNetwork == UsageError => net = <<>>

-----------------------------------------------------------------------------
\* C9: with a page ceiling N, at most N pages are requested; the loop stops
\* once N pages were requested, also after a page with records, and the list
\* then holds the pairs of all N pages; it stops earlier at a page with zero
\* features; with N = 0 no page is requested and the list written is empty.
C9_PageCeiling ==
    args.max_requested_pages # None =>
        LET N == Val(args.max_requested_pages) IN
        /\ Len(PageCalls) <= N
        /\ requested_pages <= N
        /\ requested_pages = N => pc # "loop"
        /\ (SearchWritten /\ Len(fetched) = N
                /\ \A k \in DOMAIN fetched : ~ZeroFeatures(fetched[k]))
            => Range(hrsi_products) = RefSetOfPages(N)
        /\ \A k \in DOMAIN fetched :
            ZeroFeatures(fetched[k]) => (Len(fetched) = k /\ pc # "loop")
        /\ N = 0 =>
            /\ net = <<>>
            /\ pc \in {"library", "execute_request", "finish", "done", "exited"}
            /\ pc = "exited" => hrsi_http_request = None
            /\ pc = "done" => disk[OUTPUT_RESULT_FILE] = Some(<<>>)

\* A ceiling of two pages, both with records: the search stopped there.
C9_Witness ==
    /\ args.max_requested_pages = Some(2)
    /\ pc = "done"
    /\ Len(fetched) = 2
    /\ ~ZeroFeatures(fetched[2])
    /\ Len(WrittenLines) = 2

-----------------------------------------------------------------------------
\* The last component of a path of a record.
LastPart(path) ==
    CASE path = "services.download.url" -> "url"
      [] path = "services.download.size" -> "size"
      [] OTHER -> path

\* C10: a record at index i that lacks a required field makes the extraction
\* fail with an error naming the field and the index i; the run aborts and no
\* result list is written.
C10_MissingFieldNamesIndex ==
    \A k \in DOMAIN fetched :
        ~LacksFeatures(fetched[k]) =>
            \A i \in DOMAIN Val(fetched[k].features) :
                Val(fetched[k].features)[i].absent \in RequiredFields =>
                    /\ pc = "raised"
                    /\ exc # None
                    /\ Val(exc).names = <<LastPart(Val(fetched[k].features)[i].absent)>>
                    /\ Val(exc).index = Some(i - 1)
                    /\ ~SearchWritten

-----------------------------------------------------------------------------
\* The fields of the filter that were set, whatever their value.
SetFields(f) == {field \in FilterFields : f[field] # None}

\* C8: for every filter with at least one field set, build_request produces
\* a query whose parameter keys are exactly the catalogue keys of the fields
\* that were set, plus the five static parameters.  (A filter with a date
\* that validate_Rfc3339 rejects produces no query.)
C8_ExactKeys ==
    ( /\ pc # "main"
      /\ args.queryURL = None
      /\ SetFields(args.filter) # {}
      /\ FirstBadDate(args.filter) = 0 )
    => /\ hrsi_http_request # None
       /\ DOMAIN url_params =
            {KeyOf(field) : field \in SetFields(args.filter)}
                \cup DOMAIN URL_STATIC_PARAMS

-----------------------------------------------------------------------------
\* download has read the result list that the search of the same run wrote.
ListReadBack ==
    /\ args.mode = "query_and_download"
    /\ SearchWritten
    /\ pc \in {"download", "done"}

\* The (url, title) pair download takes from an entry: field 0 and field 1,
\* or the url alone when the line has one field.
EntryPair(info_product) ==
    IF Len(info_product) >= 2 THEN <<info_product[1], info_product[2]>>
    ELSE <<info_product[1]>>

EntryPairs == {EntryPair(product_list[i]) : i \in DOMAIN product_list}

\* C6 as stated: for every set of pairs of strings, over an alphabet with ';'
\* and whitespace, the entries read back are, as a set, the pairs written.
C6_RoundTrip == ListReadBack => EntryPairs = Range(hrsi_products)

\* A string without the separator and without a line break.
OneField(str) == \A i \in DOMAIN str : str[i] \notin {";", "\n", "\r"}

\* A pair the file format keeps: neither string holds ';' or a line break,
\* the url does not start and the title does not end with whitespace.
Clean(res) ==
    /\ OneField(res[1])
    /\ OneField(res[2])
    /\ res[1] # <<>> => ~IsSpace(res[1][1])
    /\ res[2] # <<>> => ~IsSpace(res[2][Len(res[2])])

\* C6, amended: the round trip yields the set of pairs written when every
\* pair is one the file format keeps.
C6_RoundTripOfCleanPairs ==
    (ListReadBack /\ \A n \in DOMAIN hrsi_products : Clean(hrsi_products[n]))
        => EntryPairs = Range(hrsi_products)

\* A pair with a url and a title was written and read back.
C6_Witness ==
    /\ ListReadBack
    /\ hrsi_products # <<>>
    /\ \A n \in DOMAIN hrsi_products :
        /\ Clean(hrsi_products[n])
        /\ hrsi_products[n][1] # <<>>
        /\ hrsi_products[n][2] # <<>>
    /\ product_list = hrsi_products

-----------------------------------------------------------------------------
\* The list download consumes is the content of the file named name.
Consumes(name) ==
    /\ result_file = Some(name)
    /\ disk[name] # None
    /\ product_list = ParseResultList(Val(disk[name]))

\* download has started on a list: it is in its loop, or it has made a call.
Downloading ==
    \/ pc = "download"
    \/ \E i \in DOMAIN product_list : DownloadCalls(i) # {}

\* C11: in query mode no token exchange, probe or transfer is made and a run
\* that ends normally has written the result list; in query_and_download
\* mode download acts only after the search has written its list and
\* consumes that list, whatever -result_file says; in download mode no page
\* is requested and the list consumed is the file given with -result_file.
C11_Modes ==
    /\ args.mode = "query" =>
        /\ \A j \in DOMAIN net : net[j].op = "page"
        /\ pc # "download"
        /\ Done => /\ SearchWritten
                   /\ disk[OUTPUT_RESULT_FILE] = Some(ResultContent(hrsi_products))
    /\ args.mode = "query_and_download" =>
        /\ Downloading => (SearchWritten /\ Consumes(OUTPUT_RESULT_FILE))
        /\ Done => SearchWritten
        /\ \A j, h \in DOMAIN net :
            (net[j].op = "page" /\ net[h].op # "page") => j < h
    /\ args.mode = "download" =>
        /\ PageCalls = <<>>
        /\ ~SearchWritten
        /\ Downloading => Consumes(Val(args.result_file))

\* A query_and_download run given -result_file as well has downloaded what
\* its search found, which is not what the file given holds.
C11_Witness ==
    /\ args.mode = "query_and_download"
    /\ args.result_file = Some(USER_RESULT_FILE)
    /\ Done
    /\ stored # <<>>
    /\ Consumes(OUTPUT_RESULT_FILE)
    /\ disk[USER_RESULT_FILE] # disk[OUTPUT_RESULT_FILE]

-----------------------------------------------------------------------------
\* main has called build_request with every field of the filter absent.
EmptyBuild ==
    /\ args.mode \in {"query", "query_and_download"}
    /\ args.queryURL = None
    /\ \A field \in FilterFields : args.filter[field] = None
    /\ pc # "main"

NoQueryLogged ==
    \E n \in DOMAIN log :
        /\ log[n].level = "ERROR"
        /\ log[n].msg = "No query parameters were provided, no query was generated"

\* C12: after build_request was called with every field absent the process
\* has exited with -2, the error is logged, hrsi_http_request is unset as it
\* was, and no network call was made.
C12_EmptyFilterExits ==
    EmptyBuild =>
        /\ Exited
        /\ NoQueryLogged
        /\ hrsi_http_request = None
        /\ url_params = <<>>
        /\ net = <<>>

\* A query_and_download run with a credential file and no filter at all.
C12_Witness ==
    /\ EmptyBuild
    /\ args.mode = "query_and_download"
    /\ args.hrsi_credentials # None
    /\ Exited

-----------------------------------------------------------------------------
\* The text has the shape YYYY-MM-DDTHH:MM:SSZ: twenty characters, digits
\* where the letters stand, the punctuation where it stands.
MatchesProfile(date_text) ==
    /\ Len(date_text) = 20
    /\ \A i \in 1..20 :
        CASE i \in {5, 8} -> date_text[i] = "-"
          [] i = 11 -> date_text[i] = "T"
          [] i \in {14, 17} -> date_text[i] = ":"
          [] i = 20 -> date_text[i] = "Z"
          [] OTHER -> IsDigit(date_text[i])

\* A date field was supplied with a text that does not have that shape.
MalformedDate ==
    \E i \in DOMAIN DateFields :
        /\ args.filter[DateFields[i]] # None
        /\ ~MatchesProfile(Val(args.filter[DateFields[i]]))

\* C13: after build_request was called with a date field that does not match
\* YYYY-MM-DDTHH:MM:SSZ, the run has failed with a validation error,
\* hrsi_http_request is not set and no network call was made.
C13_MalformedDateRejected ==
    ( /\ args.mode \in {"query", "query_and_download"}
      /\ args.queryURL = None
      /\ MalformedDate
      /\ pc # "main" )
    => /\ Raised
       /\ exc # None
       /\ Val(exc).type = "ValueError"
       /\ hrsi_http_request = None
       /\ net = <<>>

-----------------------------------------------------------------------------
\* Log entry n is the error __get_token__ logs for a response with 'error'.
TokenErrorAt(n) ==
    /\ log[n].level = "ERROR"
    /\ log[n].msg = "Following error occured when getting the token"

\* Log entry n reports a product as downloaded.
SuccessAt(n) ==
    /\ log[n].level = "INFO"
    /\ log[n].msg = "Product successfully downloaded"

\* C14: an attempt whose token response carried 'error' gets no token and
\* goes no further.  The entries an attempt logs are the token error, if
\* any, and then its success, if any; an attempt that fails logs no success
\* and is followed by a retry notice or ends the run.  So the claim says
\* that a token error is never directly followed by a success entry.
C14_TokenErrorFails ==
    \A n \in DOMAIN log :
        TokenErrorAt(n) => ~(n + 1 \in DOMAIN log /\ SuccessAt(n + 1))

-----------------------------------------------------------------------------
\* The entry at position i of the list has a display title.
HasTitle(i) == Len(product_list[i]) >= 2

RECURSIVE LastSegment(_)
\* What follows the last '/' of a string; the string when it has none.
LastSegment(str) ==
    IF \E n \in DOMAIN str : str[n] = "/" THEN LastSegment(Tail(str)) ELSE str

\* The file names the headers of a response can give.
HeaderNames == {Val(pr.filename) : pr \in {r \in ProbeResponses : r.filename # None}}

\* C15: a transfer for an entry with a title writes to the last '/'-separated
\* segment of the title plus '.zip'; a header probe is made only for an
\* entry without a title, and every transfer for such an entry directly
\* follows its probe and writes to a name taken from the headers that ends
\* with '.zip'; an entry without a title is not downloaded without a probe.
C15_TargetFilename ==
    /\ \A j \in DOMAIN net :
        LET i == net[j].item IN
        /\ net[j].op = "probe" => ~HasTitle(i)
        /\ net[j].op = "transfer" =>
            IF HasTitle(i)
            THEN net[j].data = <<"out/">> \o LastSegment(product_list[i][2]) \o <<".zip">>
            ELSE /\ j > 1
                 /\ net[j - 1].op = "probe"
                 /\ net[j - 1].item = i
                 /\ \E name \in HeaderNames : net[j].data = <<"out/">> \o name
                 /\ EndsWith(net[j].data, <<".zip">>)
    /\ \A i \in DOMAIN attempts :
        ("ok" \in Range(attempts[i]) /\ ~HasTitle(i)) =>
            \E j \in DOMAIN net : net[j].op = "probe" /\ net[j].item = i

\* Two entries downloaded: one named after the last segment of its title,
\* one named by the headers.
C15_Witness ==
    /\ Done
    /\ Len(stored) = 2
    /\ \E i, j \in DOMAIN product_list :
        /\ ~HasTitle(i)
        /\ HasTitle(j)
        /\ product_list[j][2] = <<"d", "/", "t">>
        /\ <<"out/", "t", ".zip">> \in Range(stored)

-----------------------------------------------------------------------------
\* The number of failed attempts made so far for the product at position i.
Failures(i) == Cardinality({n \in DOMAIN attempts[i] : attempts[i][n] = "failed"})

\* The delays the claim gives for the product at position i: 5*n after the
\* n-th failed attempt, for the failures that are not the last the bound
\* allows.
ExpectedSleeps(i) ==
    LET last == IF Failures(i) < RetryBound THEN Failures(i) ELSE RetryBound - 1
    IN  [n \in 1..last |-> 5 * n]

\* C16: under every retry bound B, the arguments of time.sleep are, product
\* after product, 5*1, 5*2, ... one for each failed attempt n < B: none after
\* a success, none after the B-th failure; and the counter of failed attempts
\* is that of the product in progress, starting at 0 for each product.
C16_LinearBackoff ==
    /\ slept = Concat([i \in DOMAIN attempts |-> ExpectedSleeps(i)])
    /\ pc = "download" => ntries = Failures(idx)
    /\ \A i \in DOMAIN attempts :
        /\ Len(attempts[i]) <= RetryBound
        /\ \A n \in DOMAIN attempts[i] :
            attempts[i][n] = "ok" => n = Len(attempts[i])

\* Under a bound of three the first product failed twice and then succeeded,
\* and the second failed once so far: the delays were 5, 10 and again 5.
C16_Witness ==
    /\ RetryBound = 3
    /\ Len(product_list) = 2
    /\ attempts = << <<"failed", "failed", "ok">>, <<"failed">> >>
    /\ slept = <<5, 10, 5>>
    /\ ntries = 1

-----------------------------------------------------------------------------
\* download has acted for the entry at position i.
Started(i) == attempts[i] # <<>> \/ DownloadCalls(i) # {}

\* The entry at position i has been downloaded.
Succeeded(i) == attempts[i] # <<>> /\ attempts[i][Len(attempts[i])] = "ok"

\* C17: download acts for entry i+1 only after entry i has been downloaded:
\* the entries downloaded are a prefix of the list, the network calls follow
\* the order of the file, at most one entry is started and not downloaded,
\* and one file is stored for each entry downloaded.
C17_Sequential ==
    /\ \A i \in DOMAIN attempts :
        /\ (i > 1 /\ Started(i)) => Succeeded(i - 1)
        /\ Succeeded(i) => \A j \in 1..(i - 1) : Succeeded(j)
        /\ (Started(i) /\ ~Succeeded(i)) =>
            /\ idx = i
            /\ \A j \in DOMAIN attempts : j > i => ~Started(j)
    /\ \A j, h \in DOMAIN net :
        (j < h /\ net[j].op # "page" /\ net[h].op # "page") => net[j].item <= net[h].item
    /\ Len(stored) = Cardinality({i \in DOMAIN attempts : Succeeded(i)})

\* The first of two entries is downloaded and the second has failed.
C17_Witness ==
    /\ Len(product_list) = 2
    /\ Succeeded(1)
    /\ Started(2)
    /\ ~Succeeded(2)
    /\ Raised

-----------------------------------------------------------------------------
\* A page of complete records, at least one.
FullPage(response) ==
    /\ ~LacksFeatures(response)
    /\ Val(response.features) # <<>>
    /\ \A i \in DOMAIN Val(response.features) : Val(response.features)[i].absent = "none"

LastPage == fetched[Len(fetched)]

\* The loop has ended normally: execute_request is past it.
LoopEnded == pc = "finish" \/ SearchWritten

\* With no page ceiling: the loop has ended normally only when the last page
\* requested had zero features, and after a page of records the loop goes on
\* to request the next page; what a body advertises as total is no part of
\* either condition.
OnlyEmptyPageEnds ==
    args.max_requested_pages = None =>
        /\ LoopEnded => (fetched # <<>> /\ ZeroFeatures(LastPage))
        /\ (fetched # <<>> /\ FullPage(LastPage)) => (pc = "loop" /\ ~LoopEnded)

\* C18: with no page ceiling only a page with zero features ends the loop
\* normally, and every page of records is followed by a further request
\* (which is what makes the run endless on a catalogue that never returns an
\* empty page), whatever totals the bodies advertise; and once a page with
\* zero features has been returned the run ends with the result list
\* written.
C18_OnlyEmptyPageEnds ==
    /\ []OnlyEmptyPageEnds
    /\ (fetched # <<>> /\ ZeroFeatures(LastPage)) ~> (Done /\ SearchWritten)

\* A page of records whose body advertised no result was followed by a
\* further request, and the empty page that ended the run advertised a
\* thousand.
C18_Witness ==
    /\ Done
    /\ SearchWritten
    /\ Len(fetched) = 2
    /\ FullPage(fetched[1])
    /\ "totalResults" \in DOMAIN fetched[1]
    /\ fetched[1].totalResults = 0
    /\ ZeroFeatures(fetched[2])
    /\ "totalResults" \in DOMAIN fetched[2]
    /\ fetched[2].totalResults = 1000

-----------------------------------------------------------------------------
\* The request or the extraction of the last page failed: the response was
\* not OK or held no 'features', or one of its records lacked a path that
\* the extraction reads.
SearchFailed ==
    /\ fetched # <<>>
    /\ \/ LacksFeatures(LastPage)
       \/ \E i \in DOMAIN Val(LastPage.features) :
            Val(LastPage.features)[i].absent # "none"

\* C19: when a page request or a feature extraction has failed, the run has
\* ended on the exception; the result list in the output directory is what
\* it was before the run (absent, or the list of an earlier run), the
\* result_file setting is unchanged, and download has not started: no
\* credential set or read, no list read, no token exchange, probe or
\* transfer.
C19_NoPartialResult ==
    SearchFailed =>
        /\ Raised
        /\ exc # None
        /\ disk[OUTPUT_RESULT_FILE] \in {None, Some(OldContent)}
        /\ result_file = None
        /\ hrsi_credential = None
        /\ credentials = <<>>
        /\ product_list = <<>>
        /\ attempts = <<>>
        /\ \A j \in DOMAIN net : net[j].op = "page"

\* A query_and_download run whose second page held an incomplete record,
\* after a first page of records, in a directory with an older list.
C19_Witness ==
    /\ args.mode = "query_and_download"
    /\ args.hrsi_credentials # None
    /\ Len(fetched) = 2
    /\ FullPage(fetched[1])
    /\ SearchFailed
    /\ ~LacksFeatures(LastPage)
    /\ Raised
    /\ disk[OUTPUT_RESULT_FILE] = Some(OldContent)

-----------------------------------------------------------------------------
\* The positions in net of the token exchanges.
TokenIdx == {j \in DOMAIN net : net[j].op = "token"}

\* The number of attempts made so far, over all products.
AttemptsMade == Len(Concat(attempts))

\* The position of the last token exchange before position j of net, 0 when
\* there is none.
TokenBefore(j) ==
    LET before == {t \in TokenIdx : t < j}
    IN  IF before = {} THEN 0 ELSE CHOOSE t \in before : \A o \in before : o <= t

\* The token the endpoint issued in the exchange at position t of net.
TokenIssuedAt(t) == <<"T">> \o DecimalStr(Cardinality({k \in TokenIdx : k <= t}))

\* Every token exchange sends the login and password that download holds,
\* which are those of the first line of the credential file; and every probe
\* and transfer follows a token exchange made for the same entry and uses
\* the url of the entry with the token of that exchange.
OwnTokenEachTime ==
    /\ \A t \in TokenIdx :
        /\ net[t].url = AUTH_URL
        /\ net[t].data = <<credentials[1], credentials[2]>>
        /\ hrsi_credential # None
        /\ disk[Val(hrsi_credential)] # None
        /\ credentials = ParseCredentials(Val(disk[Val(hrsi_credential)]))
    /\ \A j \in DOMAIN net :
        net[j].op \in {"probe", "transfer"} =>
            LET t == TokenBefore(j) IN
            /\ t > 0
            /\ net[t].item = net[j].item
            /\ net[j].url = product_list[net[j].item][1] \o <<"?token=">> \o TokenIssuedAt(t)

\* C20 as stated: the above, and as many token exchanges as attempts,
\* whatever the credential file holds.
C20_TokenPerAttempt ==
    /\ OwnTokenEachTime
    /\ Cardinality(TokenIdx) = AttemptsMade

\* C20, amended: as many token exchanges as attempts when the line of the
\* credential file has the form login:password, at least two fields between
\* ':'.  (On a line without ':' every attempt fails on credentials[1] before
\* it asks for a token.)
C20_TokenPerAttemptWithLoginAndPassword ==
    /\ OwnTokenEachTime
    /\ Len(credentials) >= 2 => Cardinality(TokenIdx) = AttemptsMade

\* Two entries downloaded, each with the token of its own exchange.
C20_Witness ==
    /\ Done
    /\ Len(credentials) >= 2
    /\ AttemptsMade = 2
    /\ Cardinality(TokenIdx) = 2
    /\ Len(stored) = 2
    /\ \E j, h \in DOMAIN net :
        /\ net[j].op = "transfer"
        /\ net[h].op = "transfer"
        /\ net[j].url = product_list[1][1] \o <<"?token=", "T", "1">>
        /\ net[h].url = product_list[2][1] \o <<"?token=", "T", "2">>

-----------------------------------------------------------------------------
\* A token exchange and a transfer were made for the entry at position i in
\* the invocation in progress.
ExchangedAndTransferred(i) ==
    /\ \E j \in DOMAIN net : net[j].op = "token" /\ net[j].item = i
    /\ \E j \in DOMAIN net : net[j].op = "transfer" /\ net[j].item = i

\* The files stored before the invocation in progress began: those stored so
\* far but the ones of the entries it has downloaded.
StoredBefore ==
    SubSeq(stored, 1, Len(stored) - Cardinality({i \in DOMAIN attempts : Succeeded(i)}))

\* C21: in every invocation, whatever files earlier invocations stored, an
\* entry counts as downloaded only after a token exchange and a transfer of
\* its own in this invocation; an invocation that ends normally has made
\* them for every entry of the list; and an entry is left out only because
\* an entry before it failed.
C21_NoSkipIfExists ==
    /\ \A i \in DOMAIN attempts :
        /\ Succeeded(i) => ExchangedAndTransferred(i)
        /\ ~Started(i) =>
            \/ pc = "download" /\ idx <= i
            \/ \E j \in 1..(i - 1) : Started(j) /\ ~Succeeded(j)
    /\ Done =>
        /\ DOMAIN attempts = DOMAIN product_list
        /\ \A i \in DOMAIN product_list : ExchangedAndTransferred(i)

\* A second invocation has downloaded both entries of a list that the first
\* had downloaded already, to the same two files.
C21_Witness ==
    /\ "invocation" \in DOMAIN args
    /\ args.invocation = 2
    /\ Done
    /\ Len(product_list) = 2
    /\ Len(stored) = 4
    /\ StoredBefore = SubSeq(stored, 3, 4)
    /\ \A i \in DOMAIN product_list : ExchangedAndTransferred(i)

-----------------------------------------------------------------------------
\* The request the caller configured: the pre-built query when one is given
\* (to set_hrsi_http_request by a library caller, with -queryURL on the
\* command line), the request build_request makes of the filters otherwise.
PreBuilt == args.queryURL # None /\ Val(args.queryURL) # <<>>

Configured ==
    IF args.mode = "library" \/ PreBuilt THEN args.queryURL
    ELSE build_request(args.filter).request

\* The search has been entered.
InSearch == args.mode # "download" /\ pc \notin {"main", "library"}

\* C22: from the entry into the search on, hrsi_http_request is the request
\* that was configured; the k-th page request is that string followed by
\* '&page=k'; and for a pre-built query no parameter dictionary is made and
\* no static parameter is in any page request.
C22_RequestUnmodified ==
    /\ InSearch => hrsi_http_request = Configured
    /\ \A k \in DOMAIN PageCalls :
        /\ PageCalls[k].item = k
        /\ PageCalls[k].url = Val(Configured) \o <<"&", "page", "=">> \o DecimalStr(k)
    /\ (InSearch /\ PreBuilt) =>
        /\ url_params = <<>>
        /\ \A k \in DOMAIN PageCalls :
            Range(PageCalls[k].url) \cap DOMAIN URL_STATIC_PARAMS = {}

\* A search with a pre-built query given with -queryURL has requested two
\* pages and written its result file.
C22_Witness ==
    /\ args.mode = "query"
    /\ args.queryURL = Some(PortalQuery)
    /\ Len(PageCalls) = 2
    /\ PageCalls[2].url = PortalQuery \o <<"&", "page", "=", "2">>
    /\ hrsi_http_request = Some(PortalQuery)
    /\ SearchWritten

=============================================================================
